---- MODULE Spec2Model ----
(***************************************************************************)
(* Model of default_userdata/letta_tools/register_votc_tool.py:            *)
(*   - the script's main block, register_tool and verify_tool, as a        *)
(*     sequential state machine whose external calls (create_client,       *)
(*     client.tools.create_from_function, client.tools.list) either        *)
(*     return or raise;                                                    *)
(*   - the tool descriptor execute_votc_action, as an operator over the    *)
(*     caller's dict objects.                                              *)
(*                                                                         *)
(* Python's None is modelled by a sentinel of the same shape as the value  *)
(* it stands in for (NoTool for a record, reference 0 for a dict).         *)
(* Records returned by the client are truthy (they are plain objects       *)
(* with a name and an id), so `if tool:` and `if votc_tool:` test for      *)
(* None.                                                                   *)
(***************************************************************************)
EXTENDS Integers, Sequences, FiniteSets, TLC

VARIABLES
    pc,          \* position of the script
    tool,        \* main's `tool`: what register_tool returned (NoTool before)
    created,     \* register_tool's local `tool`: what create_from_function returned
    tools,       \* verify_tool's local `tools`: what client.tools.list() returned
    idx,         \* position of the `for tool in tools` loop (1-based, next to examine)
    votc_tool,   \* verify_tool's local `votc_tool`
    stdout,      \* lines printed to standard output
    stderr,      \* lines printed to standard error
    exitCode,    \* process exit status (0 unless sys.exit(1) ran)
    registry,    \* the remote registry, as far as this script's requests change it
    calls,       \* external client calls made so far
    verifyCalls, \* number of times main called verify_tool
    regOutcome,  \* "pending" | "returned" | "raised": how register_tool ended
    verOutcome,  \* "none" | "found" | "not_found" | "raised": how verify_tool ended
    heap,        \* dict objects held by callers of execute_votc_action
    log          \* calls of execute_votc_action made so far

vars == <<pc, tool, created, tools, idx, votc_tool, stdout, stderr, exitCode,
          registry, calls, verifyCalls, regOutcome, verOutcome, heap, log>>

procVars == <<pc, tool, created, tools, idx, votc_tool, stdout, stderr, exitCode,
              registry, calls, verifyCalls, regOutcome, verOutcome>>

descVars == <<heap, log>>

(***************************************************************************)
(* Bounds                                                                  *)
(***************************************************************************)
MaxId == 2        \* identifiers the server may assign
MaxList == 2      \* longest list client.tools.list() returns
MaxReg == 1       \* records in the registry before the script runs
MaxObjs == 1      \* dict objects held by callers of the descriptor
MaxCalls == 2     \* descriptor calls recorded

(***************************************************************************)
(* Data                                                                    *)
(***************************************************************************)
TOOL_NAME == "execute_votc_action"

Ids == 1..MaxId

ToolNames == {TOOL_NAME, "other_tool"}

Records == [name : ToolNames, id : Ids]

NoTool == [name |-> "", id |-> 0]

SeqsUpTo(S, n) == UNION {[1..k -> S] : k \in 0..n}

Line(m) == [msg |-> m, id |-> 0]

LineId(m, i) == [msg |-> m, id |-> i]

Call(by, op, ok) == [by |-> by, op |-> op, ok |-> ok]

CountCalls(op) == Len(SelectSeq(calls, LAMBDA c : c.op = op))

\* lines 79-83
ReportLines(t) ==
    <<Line("registered_ok"), Line("tool_name"), LineId("tool_id", t.id),
      Line("attach_hint_1"), Line("attach_hint_2")>>

\* lines 89-92
HintLines ==
    <<Line("make_sure"), Line("hint_server_running"),
      Line("hint_letta_installed"), Line("hint_server_accessible")>>

\* lines 128-130
CompleteLines == <<Line("registration_complete")>>

ListResponses == SeqsUpTo(Records, MaxList)

InitRegistries == SeqsUpTo(Records, MaxReg)

(***************************************************************************)
(* The script: main block, register_tool, verify_tool                      *)
(***************************************************************************)
ProcInit ==
    /\ pc = "start"
    /\ tool = NoTool
    /\ created = NoTool
    /\ tools = <<>>
    /\ idx = 1
    /\ votc_tool = NoTool
    /\ stdout = <<>>
    /\ stderr = <<>>
    /\ exitCode = 0
    /\ registry \in InitRegistries
    /\ calls = <<>>
    /\ verifyCalls = 0
    /\ regOutcome = "pending"
    /\ verOutcome = "none"

DescIdle == heap = <<>> /\ log = <<>>

Init == ProcInit /\ DescIdle

\* lines 120-124: the banner, then the call of register_tool
MainStart ==
    /\ pc = "start"
    /\ stdout' = Append(stdout, Line("banner"))
    /\ pc' = "reg_connect"
    /\ UNCHANGED <<tool, created, tools, idx, votc_tool, stderr, exitCode, registry,
                   calls, verifyCalls, regOutcome, verOutcome, heap, log>>

\* lines 66-68: create_client() returns or raises
RegConnect ==
    /\ pc = "reg_connect"
    /\ stdout' = Append(stdout, Line("connecting"))
    /\ \E ok \in BOOLEAN :
        /\ calls' = Append(calls, Call("register_tool", "create_client", ok))
        /\ pc' = IF ok THEN "reg_create" ELSE "reg_except"
        /\ regOutcome' = IF ok THEN regOutcome ELSE "raised"
    /\ UNCHANGED <<tool, created, tools, idx, votc_tool, stderr, exitCode, registry,
                   verifyCalls, verOutcome, heap, log>>

\* lines 70-77: client.tools.create_from_function(...) stores a record under
\* the fixed name and returns it, or raises and stores nothing
RegCreate ==
    /\ pc = "reg_create"
    /\ stdout' = Append(stdout, Line("registering"))
    /\ \E ok \in BOOLEAN :
        /\ calls' = Append(calls, Call("register_tool", "create_from_function", ok))
        /\ IF ok
           THEN \E i \in Ids :
                   /\ created' = [name |-> TOOL_NAME, id |-> i]
                   /\ registry' = Append(registry, [name |-> TOOL_NAME, id |-> i])
                   /\ pc' = "reg_report"
                   /\ regOutcome' = regOutcome
           ELSE /\ pc' = "reg_except"
                /\ regOutcome' = "raised"
                /\ UNCHANGED <<created, registry>>
    /\ UNCHANGED <<tool, tools, idx, votc_tool, stderr, exitCode,
                   verifyCalls, verOutcome, heap, log>>

\* lines 79-85: the result is reported and returned; a statement of the
\* report that raises (inside the try) leaves the lines before it printed
RegReport ==
    /\ pc = "reg_report"
    /\ \/ /\ stdout' = stdout \o ReportLines(created)
          /\ tool' = created
          /\ regOutcome' = "returned"
          /\ pc' = "main_check"
       \/ /\ \E k \in 0..(Len(ReportLines(created)) - 1) :
                stdout' = stdout \o SubSeq(ReportLines(created), 1, k)
          /\ tool' = tool
          /\ regOutcome' = "raised"
          /\ pc' = "reg_except"
    /\ UNCHANGED <<created, tools, idx, votc_tool, stderr, exitCode, registry,
                   calls, verifyCalls, verOutcome, heap, log>>

\* RegExcept without the sys.exit(1) of line 93: the handler falls off its end
\* and register_tool returns None
RegExcept_Returns ==
    /\ pc = "reg_except"
    /\ stderr' = Append(stderr, Line("error_registering"))
    /\ stdout' = stdout \o HintLines
    /\ pc' = "main_check"
    /\ UNCHANGED <<tool, created, tools, idx, votc_tool, exitCode, registry,
                   calls, verifyCalls, regOutcome, verOutcome, heap, log>>

\* RegExcept that tries the registration again instead of exiting
RegExcept_Retry ==
    /\ pc = "reg_except"
    /\ stderr' = Append(stderr, Line("error_registering"))
    /\ stdout' = stdout \o HintLines
    /\ pc' = "reg_connect"
    /\ UNCHANGED <<tool, created, tools, idx, votc_tool, exitCode, registry,
                   calls, verifyCalls, regOutcome, verOutcome, heap, log>>

\* lines 87-93: the handler prints the diagnostic and the hints, then sys.exit(1)
RegExcept ==
    /\ pc = "reg_except"
    /\ stderr' = Append(stderr, Line("error_registering"))
    /\ stdout' = stdout \o HintLines
    /\ exitCode' = 1
    /\ pc' = "terminated"
    /\ UNCHANGED <<tool, created, tools, idx, votc_tool, registry,
                   calls, verifyCalls, regOutcome, verOutcome, heap, log>>

\* lines 126-127: `if tool:` then the call of verify_tool; otherwise the
\* script ends
MainCheck ==
    /\ pc = "main_check"
    /\ IF tool # NoTool
       THEN /\ verifyCalls' = verifyCalls + 1
            /\ pc' = "ver_connect"
       ELSE /\ verifyCalls' = verifyCalls
            /\ pc' = "terminated"
    /\ UNCHANGED <<tool, created, tools, idx, votc_tool, stdout, stderr, exitCode,
                   registry, calls, regOutcome, verOutcome, heap, log>>

\* lines 98-100
VerConnect ==
    /\ pc = "ver_connect"
    /\ stdout' = Append(stdout, Line("verifying"))
    /\ \E ok \in BOOLEAN :
        /\ calls' = Append(calls, Call("verify_tool", "create_client", ok))
        /\ pc' = IF ok THEN "ver_list" ELSE "ver_except"
    /\ UNCHANGED <<tool, created, tools, idx, votc_tool, stderr, exitCode, registry,
                   verifyCalls, regOutcome, verOutcome, heap, log>>

\* lines 102-103: client.tools.list() returns a list of records or raises
VerList ==
    /\ pc = "ver_list"
    /\ \E ok \in BOOLEAN :
        /\ calls' = Append(calls, Call("verify_tool", "list", ok))
        /\ IF ok
           THEN /\ tools' \in ListResponses
                /\ idx' = 1
                /\ votc_tool' = NoTool
                /\ pc' = "ver_scan"
           ELSE /\ pc' = "ver_except"
                /\ UNCHANGED <<tools, idx, votc_tool>>
    /\ UNCHANGED <<tool, created, stdout, stderr, exitCode, registry,
                   verifyCalls, regOutcome, verOutcome, heap, log>>

\* VerScan whose loop leaves out the last record of the list
VerScan_SkipsLast ==
    /\ pc = "ver_scan"
    /\ IF idx >= Len(tools)
       THEN /\ pc' = "ver_result"
            /\ UNCHANGED <<idx, votc_tool>>
       ELSE IF tools[idx].name = TOOL_NAME
            THEN /\ votc_tool' = tools[idx]
                 /\ pc' = "ver_result"
                 /\ idx' = idx
            ELSE /\ idx' = idx + 1
                 /\ UNCHANGED <<pc, votc_tool>>
    /\ UNCHANGED <<tool, created, tools, stdout, stderr, exitCode, registry,
                   calls, verifyCalls, regOutcome, verOutcome, heap, log>>

\* VerScan without the break of line 108: the last matching record wins
VerScan_NoBreak ==
    /\ pc = "ver_scan"
    /\ IF idx > Len(tools)
       THEN /\ pc' = "ver_result"
            /\ UNCHANGED <<idx, votc_tool>>
       ELSE /\ votc_tool' = IF tools[idx].name = TOOL_NAME THEN tools[idx] ELSE votc_tool
            /\ idx' = idx + 1
            /\ pc' = pc
    /\ UNCHANGED <<tool, created, tools, stdout, stderr, exitCode, registry,
                   calls, verifyCalls, regOutcome, verOutcome, heap, log>>

\* lines 105-108: one iteration of `for tool in tools`
VerScan ==
    /\ pc = "ver_scan"
    /\ IF idx > Len(tools)
       THEN /\ pc' = "ver_result"
            /\ UNCHANGED <<idx, votc_tool>>
       ELSE IF tools[idx].name = TOOL_NAME
            THEN /\ votc_tool' = tools[idx]
                 /\ pc' = "ver_result"
                 /\ idx' = idx
            ELSE /\ idx' = idx + 1
                 /\ UNCHANGED <<pc, votc_tool>>
    /\ UNCHANGED <<tool, created, tools, stdout, stderr, exitCode, registry,
                   calls, verifyCalls, regOutcome, verOutcome, heap, log>>

\* VerResult that registers the tool again when the listing lacks it
VerResult_ReRegisters ==
    /\ pc = "ver_result"
    /\ IF votc_tool # NoTool
       THEN /\ stdout' = Append(stdout, LineId("verified", votc_tool.id)) \o CompleteLines
            /\ verOutcome' = "found"
            /\ UNCHANGED <<registry, calls>>
       ELSE /\ stdout' = Append(stdout, Line("not_found")) \o CompleteLines
            /\ verOutcome' = "not_found"
            /\ calls' = Append(calls, Call("verify_tool", "create_from_function", TRUE))
            /\ registry' = Append(registry, [name |-> TOOL_NAME, id |-> created.id])
    /\ pc' = "terminated"
    /\ UNCHANGED <<tool, created, tools, idx, votc_tool, stderr, exitCode,
                   verifyCalls, regOutcome, heap, log>>

\* lines 110-113, the return to main and lines 128-130
VerResult ==
    /\ pc = "ver_result"
    /\ IF votc_tool # NoTool
       THEN /\ stdout' = Append(stdout, LineId("verified", votc_tool.id)) \o CompleteLines
            /\ verOutcome' = "found"
       ELSE /\ stdout' = Append(stdout, Line("not_found")) \o CompleteLines
            /\ verOutcome' = "not_found"
    /\ pc' = "terminated"
    /\ UNCHANGED <<tool, created, tools, idx, votc_tool, stderr, exitCode, registry,
                   calls, verifyCalls, regOutcome, heap, log>>

\* VerExcept that ends the process the way register_tool's handler does
VerExcept_Exits ==
    /\ pc = "ver_except"
    /\ stderr' = Append(stderr, Line("error_verifying"))
    /\ exitCode' = 1
    /\ verOutcome' = "raised"
    /\ pc' = "terminated"
    /\ UNCHANGED <<tool, created, tools, idx, votc_tool, stdout, registry,
                   calls, verifyCalls, regOutcome, heap, log>>

\* VerExcept that goes back to register the tool again
VerExcept_ReRegisters ==
    /\ pc = "ver_except"
    /\ stderr' = Append(stderr, Line("error_verifying"))
    /\ verOutcome' = "raised"
    /\ pc' = "reg_connect"
    /\ UNCHANGED <<tool, created, tools, idx, votc_tool, stdout, exitCode, registry,
                   calls, verifyCalls, regOutcome, heap, log>>

\* lines 115-116, the return to main and lines 128-130
VerExcept ==
    /\ pc = "ver_except"
    /\ stderr' = Append(stderr, Line("error_verifying"))
    /\ stdout' = stdout \o CompleteLines
    /\ verOutcome' = "raised"
    /\ pc' = "terminated"
    /\ UNCHANGED <<tool, created, tools, idx, votc_tool, exitCode, registry,
                   calls, verifyCalls, regOutcome, heap, log>>

Next ==
    \/ MainStart
    \/ RegConnect
    \/ RegCreate
    \/ RegReport
    \/ RegExcept
    \/ MainCheck
    \/ VerConnect
    \/ VerList
    \/ VerScan
    \/ VerResult
    \/ VerExcept

Spec == Init /\ [][Next]_vars

\* The script is one sequential thread and every call of the external client
\* returns or raises, so an enabled step is eventually taken.
FairSpec == Init /\ [][Next]_vars /\ WF_vars(Next)

(***************************************************************************)
(* The tool descriptor execute_votc_action                                 *)
(*                                                                         *)
(* A dict is the sequence of its items in insertion order, with distinct   *)
(* keys.  A value is an int or a str.  The caller passes a reference: 0    *)
(* for None, otherwise an object of the heap.                              *)
(***************************************************************************)
MaxParams == 2    \* most items in a params dict

ActionNames == {"emotionHappy", "improveOpinionOfPlayer"}

ParamKeys == {"amount", "target"}

IntVal(i) == [t |-> "int", i |-> i, s |-> ""]

StrVal(str) == [t |-> "str", i |-> 0, s |-> str]

ParamValues == {IntVal(10), IntVal(-5), IntVal(0), StrVal("player")}

Items == [k : ParamKeys, v : ParamValues]

Dicts ==
    {d \in SeqsUpTo(Items, MaxParams) :
        \A i, j \in 1..Len(d) : d[i].k = d[j].k => i = j}

None == 0

DigitChar(d) ==
    CASE d = 0 -> "0" [] d = 1 -> "1" [] d = 2 -> "2" [] d = 3 -> "3"
      [] d = 4 -> "4" [] d = 5 -> "5" [] d = 6 -> "6" [] d = 7 -> "7"
      [] d = 8 -> "8" [] d = 9 -> "9"

RECURSIVE NatRepr(_)
NatRepr(n) == IF n < 10 THEN DigitChar(n) ELSE NatRepr(n \div 10) \o DigitChar(n % 10)

\* repr(int)
IntRepr(n) == IF n < 0 THEN "-" \o NatRepr(-n) ELSE NatRepr(n)

\* repr(str), for strings without quotes or escapes
StrRepr(str) == "'" \o str \o "'"

ValueRepr(v) == IF v.t = "int" THEN IntRepr(v.i) ELSE StrRepr(v.s)

RECURSIVE ItemsRepr(_)
ItemsRepr(d) ==
    IF Len(d) = 0 THEN ""
    ELSE StrRepr(d[1].k) \o ": " \o ValueRepr(d[1].v)
         \o (IF Len(d) = 1 THEN "" ELSE ", " \o ItemsRepr(Tail(d)))

\* repr(dict), as the f-string of line 61 formats {params}
DictRepr(d) == "{" \o ItemsRepr(d) \o "}"

\* execute_votc_action without lines 58-59: None is formatted as it is
execute_votc_action_NoDefault(action_name, params, h) ==
    [ret  |-> "Action '" \o action_name \o "' queued for execution with params: "
              \o (IF params = None THEN "None" ELSE DictRepr(h[params])),
     heap |-> h]

\* execute_votc_action that consumes the "amount" item of the dict it is given
\* (params.pop("amount", None) after formatting)
execute_votc_action_Pops(action_name, params, h) ==
    LET p == IF params = None THEN <<>> ELSE h[params]
    IN  [ret  |-> "Action '" \o action_name \o "' queued for execution with params: "
                  \o DictRepr(p),
         heap |-> IF params = None THEN h
                  ELSE [h EXCEPT ![params] = SelectSeq(p, LAMBDA it : it.k # "amount")]]

\* lines 19, 58-61.  The result is the returned string and the heap the call
\* leaves; `params = {}` binds the local name to a new dict and writes no
\* object of the caller.
execute_votc_action(action_name, params, h) ==
    LET p == IF params = None THEN <<>> ELSE h[params]
    IN  [ret  |-> "Action '" \o action_name \o "' queued for execution with params: "
                  \o DictRepr(p),
         heap |-> h]

DescInit ==
    /\ ProcInit
    /\ registry = <<>>
    /\ heap \in [1..MaxObjs -> Dicts]
    /\ log = <<>>

\* a caller calls execute_votc_action(action_name, params)
CallDescriptor ==
    /\ Len(log) < MaxCalls
    /\ \E action_name \in ActionNames, params \in {None} \cup DOMAIN heap :
        LET r == execute_votc_action(action_name, params, heap)
        IN  /\ heap' = r.heap
            /\ log' = Append(log, [action_name |-> action_name,
                                   params |-> params,
                                   given |-> IF params = None THEN <<>> ELSE heap[params],
                                   ret |-> r.ret])
    /\ UNCHANGED procVars

DescNext == CallDescriptor

DescSpec == DescInit /\ [][DescNext]_vars

(***************************************************************************)
(* Properties                                                              *)
(***************************************************************************)
Terminated == pc = "terminated"

Printed(out, m) == \E i \in 1..Len(out) : out[i].msg = m

HasCall(by, op, ok) == \E i \in 1..Len(calls) : calls[i] = Call(by, op, ok)

\* client.tools.create_from_function returned inside register_tool
CreateSucceeded == HasCall("register_tool", "create_from_function", TRUE)

\* create_client or create_from_function raised inside register_tool
RegistrationCallRaised ==
    \/ HasCall("register_tool", "create_client", FALSE)
    \/ HasCall("register_tool", "create_from_function", FALSE)

Listed == HasCall("verify_tool", "list", TRUE)

Matches(l) == {i \in 1..Len(l) : l[i].name = TOOL_NAME}

FirstMatch(l) == CHOOSE i \in Matches(l) : \A j \in Matches(l) : i <= j

EndsWith(out, suffix) ==
    /\ Len(out) >= Len(suffix)
    /\ SubSeq(out, Len(out) - Len(suffix) + 1, Len(out)) = suffix

\* C1: in every run, when create_from_function succeeds inside register_tool,
\* verify_tool is called exactly once afterwards; when create_client or
\* create_from_function raises, verify_tool is never called and the process
\* exits with status 1.
C1_VerifyOnceAfterCreate ==
    Terminated =>
        /\ CreateSucceeded => verifyCalls = 1
        /\ RegistrationCallRaised => verifyCalls = 0 /\ exitCode = 1

\* C2: the exit code is 0 whenever register_tool returned, whatever verify_tool
\* found or raised, and 1 whenever register_tool raised; an exception inside
\* verify_tool is caught there, does not end the process, and the run goes on
\* to the final "Registration complete!" output.
C2_ExitCode ==
    /\ Terminated /\ regOutcome = "returned" =>
            /\ exitCode = 0
            /\ verOutcome \in {"found", "not_found", "raised"}
            /\ EndsWith(stdout, CompleteLines)
    /\ Terminated /\ regOutcome = "raised" => exitCode = 1
    /\ verOutcome = "raised" =>
            /\ Terminated
            /\ exitCode = 0
            /\ Printed(stderr, "error_verifying")
            /\ EndsWith(stdout, CompleteLines)

C2_Witness ==
    /\ Terminated
    /\ verOutcome = "raised"
    /\ HasCall("verify_tool", "list", FALSE)
    /\ exitCode = 0

\* C3: for every list client.tools.list() returns, verify_tool prints the
\* verified message with an ID if and only if some record of the list is named
\* "execute_votc_action"; for a list with no such record it prints the
\* not-found message and returns without raising.
C3_FoundIffListed ==
    Terminated /\ Listed =>
        /\ Printed(stdout, "verified") <=> Matches(tools) # {}
        /\ Matches(tools) = {} =>
                /\ Printed(stdout, "not_found")
                /\ verOutcome = "not_found"
                /\ stderr = <<>>
                /\ exitCode = 0

C3_Witness ==
    /\ Terminated
    /\ Listed
    /\ Len(tools) = 2
    /\ Matches(tools) = {2}
    /\ Printed(stdout, "verified")

\* C4: when an exception is raised during registration (connecting, submitting
\* the tool, or reporting the result), it is caught, the diagnostic goes to the
\* error stream with the three remediation hints, and the process ends with a
\* non-zero exit status; register_tool does not return to its caller.
C4_RegistrationFailureFatal ==
    regOutcome = "raised" =>
        /\ pc \in {"reg_except", "terminated"}
        /\ tool = NoTool
        /\ verifyCalls = 0
        /\ Terminated =>
                /\ stderr = <<Line("error_registering")>>
                /\ EndsWith(stdout, HintLines)
                /\ exitCode # 0

C4_Witness ==
    /\ Terminated
    /\ regOutcome = "raised"
    /\ CreateSucceeded
    /\ Printed(stdout, "registered_ok")
    /\ exitCode = 1

\* C5: for every action name and every params (a dict, the empty dict, or
\* None) execute_votc_action returns "Action '<action_name>' queued for
\* execution with params: <params>" with the name as given and the dict's
\* textual form; None is formatted as the empty dict, so None and {} give the
\* same string.
C5_Format ==
    \A i \in 1..Len(log) :
        LET e == log[i] IN
        /\ e.ret = "Action '" \o e.action_name
                   \o "' queued for execution with params: " \o DictRepr(e.given)
        /\ e.params = None /\ e.action_name = "emotionHappy" =>
               e.ret = "Action 'emotionHappy' queued for execution with params: {}"
        /\ e.given = <<[k |-> "amount", v |-> IntVal(10)]>>
           /\ e.action_name = "improveOpinionOfPlayer" =>
               e.ret = "Action 'improveOpinionOfPlayer' queued for execution with params: {'amount': 10}"
        /\ \A j \in 1..Len(log) :
               /\ log[j].action_name = e.action_name
               /\ e.params = None
               /\ log[j].params # None
               /\ log[j].given = <<>>
               => log[j].ret = e.ret

C5_Witness ==
    /\ Len(log) = 2
    /\ log[1].params = None
    /\ log[2].params # None
    /\ log[2].given = <<>>
    /\ log[1].action_name = log[2].action_name

Phase ==
    CASE pc = "start" -> "start"
      [] pc \in {"reg_connect", "reg_create", "reg_report"} -> "registering"
      [] pc = "reg_except" -> "registration_failed"
      [] pc = "main_check" -> "registered"
      [] pc \in {"ver_connect", "ver_list", "ver_scan", "ver_result", "ver_except"}
            -> "verifying"
      [] pc = "terminated" -> IF exitCode = 0 THEN "done" ELSE "exit(1)"

PhaseTransitions ==
    {<<"start", "registering">>,
     <<"registering", "registered">>,
     <<"registered", "verifying">>,
     <<"verifying", "done">>,
     <<"registering", "registration_failed">>,
     <<"registration_failed", "exit(1)">>}

\* C7: every run follows start -> registering -> (registered -> verifying ->
\* done) | (registration_failed -> exit(1)) and no other transition, and,
\* every external call returning or raising, eventually reaches done or exit(1)
\* and stays there.
C7_StateMachine ==
    /\ [][Phase' # Phase => <<Phase, Phase'>> \in PhaseTransitions]_vars
    /\ <>(Phase \in {"done", "exit(1)"})

C7_Witness ==
    /\ Phase = "done"
    /\ verOutcome = "not_found"
    /\ verifyCalls = 1

\* C8: no retries: in a run create_from_function is called at most once and
\* list at most once, whatever the calls return or raise.
C8_NoRetries ==
    /\ CountCalls("create_from_function") <= 1
    /\ CountCalls("list") <= 1

C8_Witness ==
    /\ Terminated
    /\ HasCall("register_tool", "create_from_function", FALSE)
    /\ CountCalls("create_from_function") = 1

\* C9: the only change this script makes to the remote registry is the one
\* record register_tool's create request adds under the name
\* "execute_votc_action"; verify_tool leaves the registry as it is on every
\* path, and no step changes or removes a record already there.
C9_OnlyCreateWrites ==
    [][registry' # registry =>
          /\ pc = "reg_create"
          /\ CountCalls("create_from_function") = 0
          /\ Len(registry') = Len(registry) + 1
          /\ SubSeq(registry', 1, Len(registry)) = registry
          /\ registry'[Len(registry')].name = TOOL_NAME]_vars

C9_Witness ==
    /\ Terminated
    /\ verOutcome = "not_found"
    /\ Len(registry) = 2
    /\ registry[1].name = TOOL_NAME
    /\ registry[2] = tool

\* C10: when the list holds several records named "execute_votc_action",
\* verify_tool reports the id of the first of them in list order and stops
\* scanning there, whatever id register_tool's record has.
C10_FirstMatchReported ==
    verOutcome = "found" =>
        /\ Matches(tools) # {}
        /\ idx = FirstMatch(tools)
        /\ votc_tool = tools[FirstMatch(tools)]
        /\ \E i \in 1..Len(stdout) :
               stdout[i] = LineId("verified", tools[FirstMatch(tools)].id)
        /\ \A i \in 1..Len(stdout) :
               stdout[i].msg = "verified" => stdout[i].id = tools[FirstMatch(tools)].id

C10_Witness ==
    /\ verOutcome = "found"
    /\ Matches(tools) = {1, 2}
    /\ tools[1].id # tools[2].id
    /\ tools[1].id # tool.id
    /\ Printed(stdout, "verified")

====
